---- MODULE Spec2Model ----
(***************************************************************************)
(* A model of views.py (class based generic views over Django):            *)
(*   - GenericView: construction from keyword arguments / class            *)
(*     attributes / defaults, and the call pipeline get_template ->        *)
(*     get_context -> get_mimetype -> get_response;                        *)
(*   - HttpRedirect and ObjectView.__call__, which turns it into a         *)
(*     redirect response;                                                  *)
(*   - ObjectViewMeta, which wraps __call__ with the class's decorators;   *)
(*   - decorate_method_with, which lets a function decorator wrap a method;*)
(*   - instantiator, which builds one view instance per request.           *)
(*                                                                         *)
(* Python values are tagged records [kind, items] so that None, strings,   *)
(* lists and tuples stay distinguishable.                                  *)
(***************************************************************************)
EXTENDS Naturals, Sequences, FiniteSets, TLC

VARIABLES
    class_attrs,   \* user class -> its class-body dict of configuration attributes
    kwargs,        \* keyword arguments given to __init__ / instantiator
    view,          \* the served view class: ObjectView or not, overridden steps
    instances,     \* the view instances constructed so far (index = identity)
    constructed,   \* per instance, its attributes when __init__ returned
    init_raised,   \* exception raised by the last direct construction ("" if none)
    names_out,     \* last value returned by get_template_names
    requests,      \* the requests in flight or finished
    classes,       \* the classes created through ObjectViewMeta
    trace,         \* what the last call of a class's __call__ entered, in order
    dm             \* the last decorated-method call and what it did

vars == <<class_attrs, kwargs, view, instances, constructed, init_raised,
          names_out, requests, classes, trace, dm>>

-----------------------------------------------------------------------------
(* Bounds of the model *)

\* at most this many keyword arguments are passed to __init__
MaxKwargs == 2
\* at most this many requests are served in one behaviour
MaxRequests == 2
\* at most this many user classes are created through the metaclass
MaxClasses == 2
\* a decorators attribute lists at most this many decorators
MaxDecorators == 2
\* a decorated method is called with at most this many arguments
MaxArgs == 2

-----------------------------------------------------------------------------
(* Python values *)

None == [kind |-> "none", items |-> <<>>]
Str(s) == [kind |-> "str", items |-> <<s>>]
List(q) == [kind |-> "list", items |-> q]
Tuple(q) == [kind |-> "tuple", items |-> q]
Obj(n) == [kind |-> "object", items |-> <<n>>]

\* Python truth value: None, '', [] and () are false
Truthy(v) ==
    CASE v.kind = "none" -> FALSE
      [] v.kind = "str" -> v.items[1] # ""
      [] v.kind \in {"list", "tuple"} -> Len(v.items) > 0
      [] OTHER -> TRUE

\* isinstance(v, basestring)
IsBasestring(v) == v.kind = "str"

\* The names bound in the module's global namespace: the one import and the
\* module's own top-level definitions.
ModuleGlobals ==
    {"HttpResponseRedirect", "decorate_method_with", "GenericView",
     "HttpRedirect", "ObjectViewMeta", "ObjectView", "instantiator"}

\* Evaluating a global name: the name itself when bound, else NameError.
LoadGlobal(name) == IF name \in ModuleGlobals THEN name ELSE "NameError"

-----------------------------------------------------------------------------
(* Configuration: GenericView.__init__ and _load_config_values *)

Keys == {"context_processors", "mimetype", "template_loader", "template_name"}

\* the defaults __init__ passes to _load_config_values
defaults ==
    [context_processors |-> None, mimetype |-> Str("text/html"),
     template_loader |-> None, template_name |-> None]

UserClasses == {"Parent", "Child"}

\* The method resolution order of a class: Child(Parent), Parent(ObjectView),
\* ObjectView(GenericView).
mro(cls) ==
    CASE cls = "Child" -> <<"Child", "Parent", "ObjectView", "GenericView">>
      [] cls = "Parent" -> <<"Parent", "ObjectView", "GenericView">>
      [] cls = "ObjectView" -> <<"ObjectView", "GenericView">>
      [] OTHER -> <<"GenericView">>

\* The configuration attributes in a class body; GenericView and ObjectView
\* define none of the four.
EmptyDict == [k \in {} |-> None]

ClassDict(attrs, c) == IF c \in DOMAIN attrs THEN attrs[c] ELSE EmptyDict

\* getattr(cls, k, default): the first class of the MRO defining k.
getattr_class(attrs, cls, k, default) ==
    LET m == mro(cls)
        hits == {i \in 1..Len(m) : k \in DOMAIN ClassDict(attrs, m[i])}
    IN IF hits = {} THEN default
       ELSE LET first == CHOOSE i \in hits : \A j \in hits : i <= j
            IN ClassDict(attrs, m[first])[k]

\* A variant that ignores a keyword argument whose value is None.
load_config_values_none_ignored(attrs, cls, initkwargs) ==
    [self |->
        [k \in Keys |->
            LET default == getattr_class(attrs, cls, k, defaults[k])
            IN IF k \in DOMAIN initkwargs /\ initkwargs[k] # None
               THEN initkwargs[k] ELSE default],
     initkwargs |-> [k \in (DOMAIN initkwargs) \ Keys |-> initkwargs[k]]]

\* _load_config_values: for each key of defaults, default = getattr(class, k,
\* defaults[k]); value = initkwargs.pop(k, default); setattr(self, k, value).
\* Returns the attributes set on self and what is left of initkwargs.
load_config_values(attrs, cls, initkwargs) ==
    [self |->
        [k \in Keys |->
            LET default == getattr_class(attrs, cls, k, defaults[k])
            IN IF k \in DOMAIN initkwargs THEN initkwargs[k] ELSE default],
     initkwargs |-> [k \in (DOMAIN initkwargs) \ Keys |-> initkwargs[k]]]

\* GenericView.__init__: load the configuration, then reject leftover kwargs.
GenericView_init(attrs, cls, initkwargs) ==
    LET r == load_config_values(attrs, cls, initkwargs)
    IN [self |-> r.self,
        raised |-> IF DOMAIN r.initkwargs # {} THEN "TypeError" ELSE ""]

\* get_template_names caching its list on the instance.
get_template_names_caching(self) ==
    LET ret == IF self.template_name = None THEN List(<< >>)
               ELSE IF IsBasestring(self.template_name)
                    THEN List(<<self.template_name.items[1]>>)
                    ELSE self.template_name
    IN [self |-> [self EXCEPT !.template_name = ret], ret |-> ret]

\* GenericView.get_template_names
get_template_names(self) ==
    [self |-> self,
     ret |-> IF self.template_name = None THEN List(<< >>)
             ELSE IF IsBasestring(self.template_name)
                  THEN List(<<self.template_name.items[1]>>)
                  ELSE self.template_name]

-----------------------------------------------------------------------------
(* Exceptions and responses *)

NoResponse == [kind |-> "none", status |-> 0, location |-> ""]

\* django.http.HttpResponseRedirect(path)
HttpResponseRedirect(path) == [kind |-> "response", status |-> 302, location |-> path]

\* What a successful get_response hands back.
RenderedResponse == [kind |-> "response", status |-> 200, location |-> ""]

\* HttpRedirect.__init__: the exception object carries
\* self.redirect = HttpResponseRedirect(path).
HttpRedirect(path) == [type |-> "HttpRedirect", redirect |-> HttpResponseRedirect(path)]

\* Any other exception object.
Exc(type) == [type |-> type, redirect |-> NoResponse]

NoExc == Exc("")

\* The outcome of a call: a returned response, or a propagating exception.
Returned(resp) == [kind |-> "return", response |-> resp, exc |-> NoExc]
Raised(e) == [kind |-> "raise", response |-> NoResponse, exc |-> e]
Pending == [kind |-> "pending", response |-> NoResponse, exc |-> NoExc]

-----------------------------------------------------------------------------
(* The call pipeline of GenericView *)

Steps == {"get_template", "get_context", "get_mimetype", "get_response"}

Paths == {"/login/", "/denied/"}

\* The result of one pipeline step: the instance's attributes afterwards, the
\* exception raised (NoExc if it returned) and what it touched on the way.
StepResult(self, e, events) == [self |-> self, exc |-> e, events |-> events]

\* GenericView.get_template_loader: self.template_loader or django.template.loader
get_template_loader(self) ==
    IF Truthy(self.template_loader) THEN self.template_loader
    ELSE Obj("django.template.loader")

\* GenericView.get_template (with load_template inlined): the names, the
\* misconfiguration check, then loader.select_template(names), which finds a
\* template or raises TemplateDoesNotExist (found is the loader's answer).
get_template(self, found) ==
    LET n == get_template_names(self)
    IN IF ~Truthy(n.ret)
       THEN StepResult(n.self, Exc(LoadGlobal("ImproperlyConfigured")),
                       {"get_template_names"})
       ELSE StepResult(n.self,
                       IF found THEN NoExc ELSE Exc("TemplateDoesNotExist"),
                       {"get_template_names", "select_template",
                        get_template_loader(n.self).items[1]})

\* GenericView.get_context: reads the context processors, then builds a
\* RequestContext, a name the module must resolve first.
get_context(self) ==
    LET ctor == LoadGlobal("RequestContext")
    IN StepResult(self,
                  IF ctor = "NameError" THEN Exc("NameError") ELSE NoExc,
                  {"get_context_processors"})

\* GenericView.get_mimetype: return self.mimetype
get_mimetype(self) == StepResult(self, NoExc, {})

\* GenericView.get_response: HttpResponse(template.render(context), ...); the
\* callee name is resolved before the argument is evaluated.
get_response(self) ==
    LET ctor == LoadGlobal("HttpResponse")
    IN IF ctor = "NameError" THEN StepResult(self, Exc("NameError"), {})
       ELSE StepResult(self, NoExc, {"render"})

\* What a subclass's own version of a step may do: return, or raise
\* HttpRedirect to some path (other exceptions come from the inherited steps).
\* It leaves the four configuration attributes alone.
OverrideResults(self) ==
    {StepResult(self, NoExc, {"override"})}
    \cup {StepResult(self, HttpRedirect(p), {"override"}) : p \in Paths}

\* The order of GenericView.__call__ (lines 36-40).
NextStep(s) ==
    CASE s = "get_template" -> "get_context"
      [] s = "get_context" -> "get_mimetype"
      [] s = "get_mimetype" -> "get_response"
      [] OTHER -> "done"

\* The steps GenericView.__call__ has entered when step s is running.
StepsUpTo(s) ==
    CASE s = "get_template" -> {"get_template"}
      [] s = "get_context" -> {"get_template", "get_context"}
      [] s = "get_mimetype" -> {"get_template", "get_context", "get_mimetype"}
      [] OTHER -> Steps

\* An ObjectView.__call__ without the except clause.
ObjectView_call_uncaught(outcome) == outcome

\* ObjectView.__call__: try: return super().__call__(...)
\*                      except HttpRedirect, e: return e.redirect
ObjectView_call(outcome) ==
    IF outcome.kind = "raise" /\ outcome.exc.type = "HttpRedirect"
    THEN Returned(outcome.exc.redirect)
    ELSE outcome

\* The __call__ of the served class: ObjectView's wrapper around
\* GenericView.__call__, or GenericView.__call__ alone.
Dispatch(v, outcome) ==
    IF v.object_view THEN ObjectView_call(outcome) ELSE outcome

-----------------------------------------------------------------------------
(* Serving requests: instantiator, and a view instance shared by hand *)

Instance(attrs, by) == [attrs |-> attrs, scratch |-> 0, made_by |-> by]

Request(via, inst, outcome) ==
    [via |-> via, inst |-> inst,
     pc |-> IF outcome = Pending THEN "get_template" ELSE "done",
     ran |-> {}, raised_at |-> "", raised |-> outcome.exc, outcome |-> outcome]

\* A new_instance that keeps the first instance it made and reuses it.
new_instance_memoised(insts, attrs, kw) ==
    LET r == GenericView_init(attrs, "Child", kw)
        made == {i \in 1..Len(insts) : insts[i].made_by = "new_instance"}
    IN IF r.raised # ""
       THEN [instances |-> insts, inst |-> 0, raised |-> r.raised, attrs |-> r.self]
       ELSE IF made # {}
            THEN [instances |-> insts, inst |-> CHOOSE i \in made : TRUE,
                  raised |-> "", attrs |-> r.self]
            ELSE [instances |-> Append(insts, Instance(r.self, "new_instance")),
                  inst |-> Len(insts) + 1, raised |-> "", attrs |-> r.self]

\* instantiator's new_instance, first line: instance = cls(**kwargs).  A
\* constructed object is distinct from every object made before it.
new_instance(insts, attrs, kw) ==
    LET r == GenericView_init(attrs, "Child", kw)
    IN IF r.raised # ""
       THEN [instances |-> insts, inst |-> 0, raised |-> r.raised, attrs |-> r.self]
       ELSE [instances |-> Append(insts, Instance(r.self, "new_instance")),
             inst |-> Len(insts) + 1, raised |-> "", attrs |-> r.self]

\* The effect of one step of GenericView.__call__ on request r: carry on with
\* the next step, or leave the call through the class's __call__.
StepTaken(r, s, out, writes) ==
    LET req == requests[r]
        outcome == IF out.exc # NoExc THEN Dispatch(view, Raised(out.exc))
                   ELSE IF NextStep(s) = "done"
                        THEN Dispatch(view, Returned(RenderedResponse))
                        ELSE Pending
    IN /\ requests' = [requests EXCEPT ![r] =
              [req EXCEPT !.ran = @ \cup {s} \cup out.events,
                          !.pc = IF out.exc = NoExc THEN NextStep(s) ELSE "done",
                          !.raised_at = IF out.exc = NoExc THEN "" ELSE s,
                          !.raised = out.exc,
                          !.outcome = outcome]]
       /\ instances' = [instances EXCEPT ![req.inst] =
              [@ EXCEPT !.attrs = out.self,
                        !.scratch = IF writes THEN r ELSE @]]
       /\ UNCHANGED <<class_attrs, kwargs, view, constructed, init_raised,
                      names_out, classes, trace, dm>>

\* The function returned by instantiator(cls, **kwargs) is invoked.
NewInstanceRequest ==
    /\ Len(requests) < MaxRequests
    /\ LET n == new_instance(instances, class_attrs, kwargs)
       IN /\ instances' = n.instances
          /\ constructed' = IF n.raised = "" /\ n.inst > Len(constructed)
                            THEN Append(constructed, n.attrs) ELSE constructed
          /\ requests' = Append(requests,
                 IF n.raised = "" THEN Request("instantiator", n.inst, Pending)
                 ELSE Request("instantiator", 0, Raised(Exc(n.raised))))
    /\ UNCHANGED <<class_attrs, kwargs, view, init_raised, names_out,
                   classes, trace, dm>>

\* The view instance built at import time is called directly (what the
\* ObjectView docstring warns against).
DirectCall ==
    /\ Len(requests) < MaxRequests
    /\ Len(instances) >= 1
    /\ instances[1].made_by = "module"
    /\ requests' = Append(requests, Request("direct", 1, Pending))
    /\ UNCHANGED <<class_attrs, kwargs, view, instances, constructed,
                   init_raised, names_out, classes, trace, dm>>

Self(r) == instances[requests[r].inst].attrs

\* line 36: template = self.get_template(request, object)
GetTemplate(r) ==
    /\ requests[r].pc = "get_template"
    /\ IF "get_template" \in view.overrides
       THEN \E out \in OverrideResults(Self(r)) :
                StepTaken(r, "get_template", out, FALSE)
       ELSE \E found \in BOOLEAN :
                StepTaken(r, "get_template", get_template(Self(r), found), FALSE)

\* line 37: context = self.get_context(request, object); a subclass's
\* get_context (the documented extension point) keeps per-request data on self.
GetContext(r) ==
    /\ requests[r].pc = "get_context"
    /\ IF "get_context" \in view.overrides
       THEN \E out \in OverrideResults(Self(r)) :
                StepTaken(r, "get_context", out, TRUE)
       ELSE StepTaken(r, "get_context", get_context(Self(r)), FALSE)

\* line 38: mimetype = self.get_mimetype(request, object)
GetMimetype(r) ==
    /\ requests[r].pc = "get_mimetype"
    /\ IF "get_mimetype" \in view.overrides
       THEN \E out \in OverrideResults(Self(r)) :
                StepTaken(r, "get_mimetype", out, FALSE)
       ELSE StepTaken(r, "get_mimetype", get_mimetype(Self(r)), FALSE)

\* lines 39-40: response = self.get_response(...); return response
GetResponse(r) ==
    /\ requests[r].pc = "get_response"
    /\ IF "get_response" \in view.overrides
       THEN \E out \in OverrideResults(Self(r)) :
                StepTaken(r, "get_response", out, FALSE)
       ELSE StepTaken(r, "get_response", get_response(Self(r)), FALSE)

\* The class statements and instantiator arguments the served view is run with.
ServedClassAttrs ==
    {[c \in UserClasses |->
        IF c = "Parent" THEN [k \in {"template_name"} |-> Str("page.html")]
        ELSE EmptyDict]}

ServedKwargs ==
    {EmptyDict,
     [k \in {"template_name"} |-> Tuple(<< >>)],
     [k \in {"template_name"} |-> None],
     [k \in {"mimetype"} |-> None],
     [k \in {"bogus"} |-> None]}

Views == [object_view : BOOLEAN, overrides : SUBSET Steps]

\* names_out before get_template_names was ever called
Unset == [kind |-> "unset", items |-> << >>]

NoClasses == << >>
NoTrace == [cls |-> 0, entered |-> << >>]
NoCallable == [kind |-> "none", self |-> ""]
NoReturn == [kind |-> "none", self |-> "", args |-> << >>, tagged |-> FALSE]
NoDm == [pc |-> "unused", d |-> "", self |-> "", args |-> << >>,
         wrapper_got |-> << >>, handed |-> NoCallable, invoked |-> << >>,
         ret |-> NoReturn]

Init ==
    /\ class_attrs \in ServedClassAttrs
    /\ kwargs \in ServedKwargs
    /\ view \in Views
    /\ LET r == GenericView_init(class_attrs, "Child", kwargs)
       IN /\ init_raised = r.raised
          /\ instances = IF r.raised = "" THEN <<Instance(r.self, "module")>> ELSE << >>
          /\ constructed = IF r.raised = "" THEN <<r.self>> ELSE << >>
    /\ names_out = Unset
    /\ requests = << >>
    /\ classes = NoClasses
    /\ trace = NoTrace
    /\ dm = NoDm

Next ==
    \/ NewInstanceRequest
    \/ DirectCall
    \/ \E r \in 1..Len(requests) : GetTemplate(r)
    \/ \E r \in 1..Len(requests) : GetContext(r)
    \/ \E r \in 1..Len(requests) : GetMimetype(r)
    \/ \E r \in 1..Len(requests) : GetResponse(r)

Spec == Init /\ [][Next]_vars

-----------------------------------------------------------------------------
(* Properties of serving requests (specification Spec) *)

Reqs == 1..Len(requests)

\* C1: on an ObjectView, when a step of the call pipeline raises
\* HttpRedirect(path), the call returns the redirect response to exactly that
\* path, nothing propagates, and no later step of the pipeline has run.
C1_RedirectReturned ==
    \A r \in Reqs :
        LET q == requests[r]
        IN (view.object_view /\ q.raised.type = "HttpRedirect")
           => /\ q.pc = "done"
              /\ \E p \in Paths :
                    /\ q.raised.redirect.location = p
                    /\ q.outcome.kind = "return"
                    /\ q.outcome.response = [kind |-> "response", status |-> 302,
                                             location |-> p]
              /\ q.ran \cap Steps = StepsUpTo(q.raised_at)

\* C1 witness: the last step, get_response, raised HttpRedirect("/denied/") on
\* an ObjectView and the call returned the redirect to "/denied/".
C1_Witness ==
    \E r \in Reqs :
        /\ view.object_view
        /\ requests[r].raised_at = "get_response"
        /\ requests[r].raised = HttpRedirect("/denied/")
        /\ requests[r].outcome.response.location = "/denied/"

\* C2 (as claimed): when no template name is configured and get_template is
\* the inherited one, the call ends raising ImproperlyConfigured, before the
\* loader is asked, before a context is built and before a response is made.
C2_ImproperlyConfiguredRaised ==
    \A r \in Reqs :
        LET q == requests[r]
        IN (/\ q.inst # 0
            /\ "get_template" \notin view.overrides
            /\ "get_template" \in q.ran
            /\ ~Truthy(get_template_names(instances[q.inst].attrs).ret))
           => /\ q.pc = "done"
              /\ q.outcome.kind = "raise"
              /\ q.outcome.exc.type = "ImproperlyConfigured"
              /\ q.ran \cap {"select_template", "get_context", "get_mimetype",
                             "get_response"} = {}

\* C3: requests served through instantiator never share a view instance with
\* any other request, and what a request wrote on its instance is the only
\* thing found there.
C3_FreshInstancePerRequest ==
    \A r1 \in Reqs :
        (requests[r1].via = "instantiator" /\ requests[r1].inst # 0)
        => /\ \A r2 \in Reqs \ {r1} : requests[r2].inst # requests[r1].inst
           /\ instances[requests[r1].inst].scratch \in {0, r1}

\* C3 witness: two instantiator requests are in flight at once, each past
\* get_context, each having written its own instance.
C3_Witness ==
    \E r1, r2 \in Reqs :
        /\ r1 # r2
        /\ requests[r1].via = "instantiator" /\ requests[r2].via = "instantiator"
        /\ requests[r1].pc = "get_mimetype" /\ requests[r2].pc = "get_mimetype"
        /\ instances[requests[r1].inst].scratch = r1
        /\ instances[requests[r2].inst].scratch = r2

\* C5: whatever calls an instance has served, its four configuration
\* attributes are those it had when __init__ returned.
C5_ConfigUnchanged ==
    /\ Len(constructed) = Len(instances)
    /\ \A i \in 1..Len(instances) :
          \A k \in Keys : instances[i].attrs[k] = constructed[i][k]

\* C5 witness: one instance has served two finished calls, one that returned
\* and one that raised.
C5_Witness ==
    \E r1, r2 \in Reqs :
        /\ r1 # r2
        /\ requests[r1].inst = requests[r2].inst /\ requests[r1].inst # 0
        /\ requests[r1].pc = "done" /\ requests[r2].pc = "done"
        /\ requests[r1].outcome.kind = "return"
        /\ requests[r2].outcome.kind = "raise"

-----------------------------------------------------------------------------
(* Constructing a view and asking for its template names
   (specification SpecConfig) *)

KwargNames == Keys \cup {"bogus"}

\* The values tried for each configuration key.
ValuesOf(k) ==
    CASE k = "template_name" ->
            {None, Str("a.html"), List(<< >>), List(<<"a.html", "b.html">>),
             Tuple(<< >>), Tuple(<<"a.html", "b.html">>)}
      [] k = "mimetype" -> {None, Str("text/plain")}
      [] k = "template_loader" -> {None, Obj("app.loader")}
      [] k = "context_processors" -> {None, List(<<"proc">>)}
      [] OTHER -> {None}

AllValues == UNION {ValuesOf(k) : k \in KwargNames}

DictsOver(D) == {f \in [D -> AllValues] : \A k \in D : f[k] \in ValuesOf(k)}

\* A class body defining none or one of the four attributes.
ClassBodies == {EmptyDict} \cup UNION {DictsOver({k}) : k \in Keys}

\* Up to MaxKwargs keyword arguments, possibly one __init__ does not know.
KwargDicts ==
    UNION {DictsOver(D) : D \in {E \in SUBSET KwargNames : Cardinality(E) <= MaxKwargs}}

\* view = Child(**kwargs)
Construct ==
    /\ instances = << >>
    /\ init_raised = ""
    /\ LET r == GenericView_init(class_attrs, "Child", kwargs)
       IN IF r.raised = ""
          THEN /\ instances' = <<Instance(r.self, "module")>>
               /\ constructed' = <<r.self>>
               /\ UNCHANGED init_raised
          ELSE /\ init_raised' = r.raised
               /\ UNCHANGED <<instances, constructed>>
    /\ UNCHANGED <<class_attrs, kwargs, view, names_out, requests, classes,
                   trace, dm>>

\* view.get_template_names(request, obj)
CallGetTemplateNames ==
    /\ Len(instances) = 1
    /\ names_out = Unset
    /\ LET n == get_template_names(instances[1].attrs)
       IN /\ names_out' = n.ret
          /\ instances' = [instances EXCEPT ![1].attrs = n.self]
    /\ UNCHANGED <<class_attrs, kwargs, view, constructed, init_raised,
                   requests, classes, trace, dm>>

InitConfig ==
    /\ class_attrs \in [UserClasses -> ClassBodies]
    /\ kwargs \in KwargDicts
    /\ view = [object_view |-> TRUE, overrides |-> {}]
    /\ instances = << >>
    /\ constructed = << >>
    /\ init_raised = ""
    /\ names_out = Unset
    /\ requests = << >>
    /\ classes = NoClasses
    /\ trace = NoTrace
    /\ dm = NoDm

NextConfig == Construct \/ CallGetTemplateNames

SpecConfig == InitConfig /\ [][NextConfig]_vars

\* C6: each configuration attribute of a constructed instance is the keyword
\* argument if that key was passed (None included), else the nearest class
\* attribute of that name (Child's, then Parent's), else the built-in
\* default: 'text/html' for mimetype, None for the other three.
C6_ConfigPrecedence ==
    \A i \in 1..Len(constructed) : \A k \in Keys :
        constructed[i][k] =
            IF k \in DOMAIN kwargs THEN kwargs[k]
            ELSE IF k \in DOMAIN class_attrs["Child"] THEN class_attrs["Child"][k]
            ELSE IF k \in DOMAIN class_attrs["Parent"] THEN class_attrs["Parent"][k]
            ELSE IF k = "mimetype" THEN Str("text/html")
            ELSE None

\* C6 witness: template_name=None was passed while Child's class body sets a
\* template name and Parent's sets none; mimetype came from the default.
C6_Witness ==
    /\ Len(constructed) = 1
    /\ "template_name" \in DOMAIN kwargs /\ kwargs["template_name"] = None
    /\ "template_name" \in DOMAIN class_attrs["Child"]
    /\ class_attrs["Child"]["template_name"] = Str("a.html")
    /\ constructed[1]["template_name"] = None
    /\ constructed[1]["mimetype"] = Str("text/html")

\* C8 (as claimed): get_template_names returns a list for every configured
\* template_name: [] for None, [name] for a string, the names for a sequence.
C8_TemplateNamesIsList ==
    (names_out # Unset) =>
        LET t == constructed[1]["template_name"]
        IN /\ names_out.kind = "list"
           /\ names_out.items = IF t.kind = "none" THEN << >> ELSE t.items

-----------------------------------------------------------------------------
(* ObjectViewMeta: class creation and the decorators attribute
   (specification SpecMeta).  A callable is the sequence of the layers a call
   enters: the decorators wrapped around it, outermost first, then the
   function itself. *)

DecoratorNames == {"d1", "d2"}

RECURSIVE SeqsUpTo(_)
SeqsUpTo(n) ==
    IF n = 0 THEN {<< >>}
    ELSE LET shorter == SeqsUpTo(n - 1)
         IN shorter \cup {Append(q, d) : q \in shorter, d \in DecoratorNames}

\* A class body: it may set decorators, and may define its own __call__.
Absent == [present |-> FALSE, list |-> << >>]
Present(q) == [present |-> TRUE, list |-> q]

ClassBodiesMeta ==
    [decorators : {Absent} \cup {Present(q) : q \in SeqsUpTo(MaxDecorators)},
     defines_call : BOOLEAN]

\* hasattr(cls, "decorators") / cls.decorators, through the base classes;
\* class 0 is GenericView, which has none.
RECURSIVE lookup_decorators(_, _)
lookup_decorators(clss, c) ==
    IF c = 0 THEN Absent
    ELSE IF clss[c].decorators.present THEN clss[c].decorators
    ELSE lookup_decorators(clss, clss[c].base)

\* cls.__call__, through the base classes.
RECURSIVE lookup_call(_, _)
lookup_call(clss, c) ==
    IF c = 0 THEN <<"GenericView.__call__">>
    ELSE IF clss[c].call # << >> THEN clss[c].call
    ELSE lookup_call(clss, clss[c].base)

\* list.reverse()
RECURSIVE Reverse(_)
Reverse(q) == IF q = << >> THEN << >> ELSE Append(Reverse(Tail(q)), Head(q))

\* d(f): a wrapper that enters d and then calls f.
Wrap(d, f) == <<d>> \o f

\* for d in decorators: call = d(call)
RECURSIVE ApplyAll(_, _)
ApplyAll(ds, call) ==
    IF ds = << >> THEN call ELSE ApplyAll(Tail(ds), Wrap(Head(ds), call))

\* Applying the decorators in the order they are listed.
decorated_call_in_order(decorators, call) == ApplyAll(decorators, call)

\* lines 131-134: decorators = list(cls.decorators); decorators.reverse();
\* for d in decorators: cls.__call__ = d(cls.__call__)
decorated_call(decorators, call) == ApplyAll(Reverse(decorators), call)

\* ObjectViewMeta.__new__(mcs, name, bases, attrs): type.__new__, then the
\* decorators visible on the new class wrap the __call__ visible on it.
\* orig_call records the __call__ found before wrapping.
Meta_new(clss, base, body) ==
    LET cls == [base |-> base, decorators |-> body.decorators,
                call |-> IF body.defines_call THEN <<"user.__call__">> ELSE << >>,
                orig_call |-> << >>]
        made == Append(clss, cls)
        c == Len(made)
        ds == lookup_decorators(made, c)
        before == lookup_call(made, c)
    IN IF ds.present
       THEN [made EXCEPT ![c].call = decorated_call(ds.list, before),
                         ![c].orig_call = before]
       ELSE [made EXCEPT ![c].orig_call = before]

\* Calling a callable: each layer is entered, then calls the one it wraps.
RECURSIVE Run(_)
Run(call) == IF call = << >> THEN << >> ELSE <<Head(call)>> \o Run(Tail(call))

\* The module's own class statement: class ObjectView(GenericView) with
\* __metaclass__ = ObjectViewMeta and its own __call__ (lines 137-174).
ObjectViewClass ==
    [base |-> 0, decorators |-> Absent, call |-> <<"ObjectView.__call__">>,
     orig_call |-> <<"ObjectView.__call__">>]

\* class X(Base): ... for a Base that is ObjectView or derives from it
DefineClass(base, body) ==
    /\ Len(classes) < MaxClasses + 1
    /\ classes' = Meta_new(classes, base, body)
    /\ UNCHANGED <<class_attrs, kwargs, view, instances, constructed,
                   init_raised, names_out, requests, trace, dm>>

\* An instance of class c is called: type(instance).__call__ runs.
CallClass(c) ==
    /\ trace' = [cls |-> c, entered |-> Run(lookup_call(classes, c))]
    /\ UNCHANGED <<class_attrs, kwargs, view, instances, constructed,
                   init_raised, names_out, requests, classes, dm>>

InitMeta ==
    /\ class_attrs = [c \in UserClasses |-> EmptyDict]
    /\ kwargs = EmptyDict
    /\ view = [object_view |-> TRUE, overrides |-> {}]
    /\ instances = << >>
    /\ constructed = << >>
    /\ init_raised = ""
    /\ names_out = Unset
    /\ requests = << >>
    /\ classes = <<ObjectViewClass>>
    /\ trace = NoTrace
    /\ dm = NoDm

NextMeta ==
    \/ \E base \in 1..Len(classes), body \in ClassBodiesMeta : DefineClass(base, body)
    \/ \E c \in 1..Len(classes) : CallClass(c)

SpecMeta == InitMeta /\ [][NextMeta]_vars

Count(x, q) == Cardinality({i \in 1..Len(q) : q[i] = x})

\* C4: for a class whose visible decorators are [d1, ..., dn], __call__ is
\* d1(d2(...dn(original __call__)...)): a call enters d1 first, then d2, ...,
\* then dn, and right after dn the __call__ the class had before wrapping.
C4_DecoratorOrder ==
    \A c \in 1..Len(classes) :
        LET ds == lookup_decorators(classes, c)
            n == Len(ds.list)
        IN ds.present =>
            /\ lookup_call(classes, c) = ds.list \o classes[c].orig_call
            /\ trace.cls = c =>
                  /\ SubSeq(trace.entered, 1, n) = ds.list
                  /\ SubSeq(trace.entered, n + 1, Len(trace.entered))
                        = classes[c].orig_call

\* C4 witness: a class with decorators = [d1, d2] on top of ObjectView was
\* called and entered d1, d2, ObjectView.__call__ in that order.
C4_Witness ==
    /\ trace.cls # 0
    /\ classes[trace.cls].decorators = Present(<<"d1", "d2">>)
    /\ trace.entered = <<"d1", "d2", "ObjectView.__call__">>

\* C9 (as claimed): on every class, each decorator of the visible decorators
\* attribute wraps __call__ exactly as often as it is listed, so one call
\* runs it once.
C9_EachDecoratorOnce ==
    \A c \in 1..Len(classes) :
        LET ds == lookup_decorators(classes, c)
        IN (ds.present /\ trace.cls = c) =>
              \A d \in DecoratorNames :
                  Count(d, trace.entered) = Count(d, ds.list)

-----------------------------------------------------------------------------
(* decorate_method_with (specification SpecDecorate) *)

\* The function decorators tried: one that passes the call through, one that
\* looks at its first argument and may answer without calling the function
\* (as login_required looks at the request), one that passes on changed
\* arguments, and one that changes the result.
FunctionDecorators == {"pass_through", "deny_anon", "add_arg", "tag_result"}

ViewInstances == {"view1", "view2"}
ArgValues == {"anon", "user", "obj"}

RECURSIVE ArgLists(_)
ArgLists(n) ==
    IF n = 0 THEN {<< >>}
    ELSE LET shorter == ArgLists(n - 1)
         IN shorter \cup {Append(q, a) : q \in shorter, a \in ArgValues}

\* The argument lists the wrapper made by decorator d hands to the function
\* it wraps when it is called with x (none when it answers by itself).
DecPassOn(d, x) ==
    CASE d = "deny_anon" -> IF x = << >> \/ x[1] = "anon" THEN << >> ELSE <<x>>
      [] d = "add_arg" -> <<x \o <<"extra">>>>
      [] OTHER -> <<x>>

\* What that wrapper returns, given what the wrapped function returned.
DecReturn(d, x, inner) ==
    CASE d = "deny_anon" /\ DecPassOn(d, x) = << >> ->
            [kind |-> "denied", self |-> "", args |-> << >>, tagged |-> FALSE]
      [] d = "tag_result" -> [inner EXCEPT !.tagged = TRUE]
      [] OTHER -> inner

\* The method being decorated, called as unbound_method(self, *a): its
\* result tells which instance and which arguments it saw.
unbound_method(self, a) ==
    [ret |-> [kind |-> "result", self |-> self, args |-> a, tagged |-> FALSE],
     invoked |-> [self |-> self, args |-> a]]

\* lines 12-13: def f(*a, **kw): return unbound_method(self, *a, **kw)
f(self, a) == unbound_method(self, a)

\* Calling what was handed to the decorator: the closure f, which supplies
\* self, or a method called with self as its first positional argument (a
\* TypeError when there is none).
CallHanded(handed, x) ==
    IF handed.kind = "f" THEN f(handed.self, x)
    ELSE IF x = << >>
         THEN [ret |-> [NoReturn EXCEPT !.kind = "TypeError"],
               invoked |-> [self |-> "", args |-> << >>]]
         ELSE unbound_method(Head(x), Tail(x))

\* function_decorator(handed)(*x)
Decorated(d, handed, x) ==
    LET passed == DecPassOn(d, x)
        inner == IF passed = << >> THEN << >> ELSE <<CallHanded(handed, passed[1])>>
    IN [wrapper_got |-> x, handed |-> handed,
        invoked |-> [i \in 1..Len(inner) |-> inner[i].invoked],
        ret |-> DecReturn(d, x, IF inner = << >> THEN NoReturn ELSE inner[1].ret)]

\* The decorator applied to the method itself, called with self up front.
method_proxy_undistinguished(d, self, args) ==
    Decorated(d, [kind |-> "unbound_method", self |-> ""], <<self>> \o args)

\* lines 11-14: def method_proxy(self, *args, **kwargs): def f ...;
\*              return function_decorator(f)(*args, **kwargs)
method_proxy(d, self, args) ==
    Decorated(d, [kind |-> "f", self |-> self], args)

\* instance.method(*args) for a method wrapped with decorate_method_with(d)
CallMethod ==
    /\ dm.pc = "ready"
    /\ LET r == method_proxy(dm.d, dm.self, dm.args)
       IN dm' = [dm EXCEPT !.pc = "done", !.wrapper_got = r.wrapper_got,
                           !.handed = r.handed, !.invoked = r.invoked,
                           !.ret = r.ret]
    /\ UNCHANGED <<class_attrs, kwargs, view, instances, constructed,
                   init_raised, names_out, requests, classes, trace>>

InitDecorate ==
    /\ class_attrs = [c \in UserClasses |-> EmptyDict]
    /\ kwargs = EmptyDict
    /\ view = [object_view |-> TRUE, overrides |-> {}]
    /\ instances = << >>
    /\ constructed = << >>
    /\ init_raised = ""
    /\ names_out = Unset
    /\ requests = << >>
    /\ classes = NoClasses
    /\ trace = NoTrace
    /\ \E d \in FunctionDecorators, self \in ViewInstances, args \in ArgLists(MaxArgs) :
          dm = [NoDm EXCEPT !.pc = "ready", !.d = d, !.self = self, !.args = args]

NextDecorate == CallMethod

SpecDecorate == InitDecorate /\ [][NextDecorate]_vars

\* C7: a method wrapped with decorate_method_with(d) behaves like d applied
\* to a plain function: the callable handed to d takes the arguments alone
\* and supplies the instance itself, d's wrapper receives exactly the call's
\* arguments without self, the method runs on that same instance with the
\* arguments d passes on, and the call returns what d's wrapper returns.
C7_MethodDecoratedLikeFunction ==
    (dm.pc = "done") =>
        LET passed == DecPassOn(dm.d, dm.args)
        IN /\ dm.wrapper_got = dm.args
           /\ \A a \in ArgLists(MaxArgs) :
                 CallHanded(dm.handed, a).invoked = [self |-> dm.self, args |-> a]
           /\ Len(dm.invoked) = Len(passed)
           /\ \A i \in 1..Len(passed) :
                 dm.invoked[i] = [self |-> dm.self, args |-> passed[i]]
           /\ dm.ret =
                 IF passed = << >>
                 THEN DecReturn(dm.d, dm.args, NoReturn)
                 ELSE DecReturn(dm.d, dm.args,
                                [kind |-> "result", self |-> dm.self,
                                 args |-> passed[1], tagged |-> FALSE])

\* C7 witness: a decorator that inspects its first argument let the call
\* ("user", "obj") through to the method on view2.
C7_Witness ==
    /\ dm.pc = "done"
    /\ dm.d = "deny_anon"
    /\ dm.self = "view2"
    /\ dm.args = <<"user", "obj">>
    /\ dm.invoked = <<[self |-> "view2", args |-> <<"user", "obj">>]>>
    /\ dm.ret.kind = "result"

====
